---- MODULE Spec2Model ----
(***************************************************************************)
(* Turn handling of the support chatbot backend (src/app.py, ask_chatbot)  *)
(* and the session map, email table and notifier it drives.                *)
(*                                                                         *)
(* Text is a sequence of one-character strings, so that the regular        *)
(* expressions and substring tests of the source are computed, not         *)
(* assumed.  A Python dict is a function whose DOMAIN is its key set.      *)
(***************************************************************************)
EXTENDS Integers, Sequences, FiniteSets, TLC

(***************************************************************************)
(* Characters and character classes of the regular expressions.            *)
(***************************************************************************)
UpperSeq ==
    <<"A","B","C","D","E","F","G","H","I","J","K","L","M",
      "N","O","P","Q","R","S","T","U","V","W","X","Y","Z">>

LowerSeq ==
    <<"a","b","c","d","e","f","g","h","i","j","k","l","m",
      "n","o","p","q","r","s","t","u","v","w","x","y","z">>

UpperChars == {UpperSeq[i] : i \in DOMAIN UpperSeq}

LowerChars == {LowerSeq[i] : i \in DOMAIN LowerSeq}

LetterChars == UpperChars \cup LowerChars

DigitChars == {"0","1","2","3","4","5","6","7","8","9"}

\* \w of the re module, restricted to ASCII text
WordChars == LetterChars \cup DigitChars \cup {"_"}

\* \s of the re module; the texts of the model hold only the blank
SpaceChars == {" "}

\* [a-zA-Z0-9._%+-]
EmailLocalChars == LetterChars \cup DigitChars \cup {".", "_", "%", "+", "-"}

\* [a-zA-Z0-9.-]
DomainChars == LetterChars \cup DigitChars \cup {".", "-"}

\* str.lower() on one character
LowerChar(c) ==
    IF c \in UpperChars
    THEN LowerSeq[CHOOSE i \in DOMAIN UpperSeq : UpperSeq[i] = c]
    ELSE c

\* str.lower()
Lower(s) == [i \in DOMAIN s |-> LowerChar(s[i])]

\* s[i-1:j] of Python: positions i..j, the end clamped to the text
Slice(s, i, j) == SubSeq(s, i, IF j > Len(s) THEN Len(s) ELSE j)

\* Python's `sub in s`
Contains(s, sub) ==
    \E i \in 1..(Len(s) - Len(sub) + 1) : Slice(s, i, i + Len(sub) - 1) = sub

\* the end of the maximal run of characters of class cls starting at i
\* (i - 1 when s[i] is not in cls)
RECURSIVE RunEnd(_, _, _)
RunEnd(s, i, cls) ==
    IF i <= Len(s) /\ s[i] \in cls THEN RunEnd(s, i + 1, cls) ELSE i - 1

\* " ".join(words)
RECURSIVE JoinSpace(_)
JoinSpace(words) ==
    IF Len(words) = 0 THEN << >>
    ELSE IF Len(words) = 1 THEN words[1]
    ELSE words[1] \o <<" ">> \o JoinSpace(Tail(words))

Min(S) == CHOOSE x \in S : \A y \in S : x <= y

Max(S) == CHOOSE x \in S : \A y \in S : x >= y

(***************************************************************************)
(* Python's None for an optional text: texts are sequences of characters,  *)
(* so a one-element sequence holding a non-character stands for None.      *)
(***************************************************************************)
None == <<"None">>

(***************************************************************************)
(* extract_email_from_text: re.search of                                   *)
(*   [a-zA-Z0-9._%+-]+@[a-zA-Z0-9.-]+\.[a-zA-Z]{2,}                        *)
(* The leftmost match, each quantifier greedy with backtracking.           *)
(***************************************************************************)
\* the positions p of the "\." of a match whose "@" is at position at
EmailDotPositions(s, at) ==
    {p \in (at + 2)..RunEnd(s, at + 1, DomainChars) :
        /\ s[p] = "."
        /\ RunEnd(s, p + 1, LetterChars) >= p + 2}

\* the end of the match that starts at i, 0 when none starts there
EmailMatchEnd(s, i) ==
    LET at == RunEnd(s, i, EmailLocalChars) + 1
    IN  IF at > i /\ at <= Len(s) /\ s[at] = "@" /\ EmailDotPositions(s, at) # {}
        THEN RunEnd(s, Max(EmailDotPositions(s, at)) + 1, LetterChars)
        ELSE 0

extract_email_from_text(text) ==
    LET starts == {i \in 1..Len(text) : EmailMatchEnd(text, i) # 0}
    IN  IF starts = {} THEN None
        ELSE Slice(text, Min(starts), EmailMatchEnd(text, Min(starts)))

(***************************************************************************)
(* extract_url_from_text: re.findall of                                    *)
(*   https?://[a-zA-Z0-9.-]+\.[a-zA-Z]{2,}[^\s]*                           *)
(***************************************************************************)
\* the position after the scheme "http://" or "https://" at i, 0 when absent
SchemeEnd(s, i) ==
    IF Slice(s, i, i + 7) = <<"h","t","t","p","s",":","/","/">> THEN i + 8
    ELSE IF Slice(s, i, i + 6) = <<"h","t","t","p",":","/","/">> THEN i + 7
    ELSE 0

\* a variant that ends the match with the domain
UrlMatchEndAtDomain(s, i) ==
    LET h == SchemeEnd(s, i)
        dots == {p \in (h + 1)..RunEnd(s, h, DomainChars) :
                    /\ s[p] = "."
                    /\ RunEnd(s, p + 1, LetterChars) >= p + 2}
    IN  IF h # 0 /\ dots # {}
        THEN RunEnd(s, Max(dots) + 1, LetterChars)
        ELSE 0

\* the end of the match that starts at i, 0 when none starts there
UrlMatchEnd(s, i) ==
    LET h == SchemeEnd(s, i)
        dots == {p \in (h + 1)..RunEnd(s, h, DomainChars) :
                    /\ s[p] = "."
                    /\ RunEnd(s, p + 1, LetterChars) >= p + 2}
    IN  IF h # 0 /\ dots # {}
        THEN RunEnd(s, Max(dots) + 1, {s[k] : k \in DOMAIN s} \ SpaceChars)
        ELSE 0

\* the non-overlapping matches from position i on, left to right
RECURSIVE UrlsFrom(_, _)
UrlsFrom(s, i) ==
    IF i > Len(s) THEN << >>
    ELSE IF UrlMatchEnd(s, i) # 0
         THEN <<Slice(s, i, UrlMatchEnd(s, i))>> \o UrlsFrom(s, UrlMatchEnd(s, i) + 1)
         ELSE UrlsFrom(s, i + 1)

extract_url_from_text(text) == UrlsFrom(text, 1)

(***************************************************************************)
(* extract_name_from_text: re.findall of \b[A-Z][a-z]*\b, the common       *)
(* capitalised words dropped, then the one-or-many heuristic.              *)
(***************************************************************************)
\* \b before position i (i may be Len(s) + 1)
WordBoundary(s, i) ==
    LET before == i > 1 /\ s[i - 1] \in WordChars
        after == i <= Len(s) /\ s[i] \in WordChars
    IN  before # after

\* the end of the match of \b[A-Z][a-z]*\b that starts at i, 0 when none
CapWordEnd(s, i) ==
    LET e == RunEnd(s, i + 1, LowerChars)
    IN  IF s[i] \in UpperChars /\ WordBoundary(s, i) /\ WordBoundary(s, e + 1)
        THEN e ELSE 0

RECURSIVE CapWordsFrom(_, _)
CapWordsFrom(s, i) ==
    IF i > Len(s) THEN << >>
    ELSE IF CapWordEnd(s, i) # 0
         THEN <<Slice(s, i, CapWordEnd(s, i))>> \o CapWordsFrom(s, CapWordEnd(s, i) + 1)
         ELSE CapWordsFrom(s, i + 1)

common_words ==
    { <<"I">>, <<"A">>, <<"T","h","e">>, <<"A","n","d">>, <<"O","r">>,
      <<"B","u","t">>, <<"F","o","r">>, <<"N","o","r">>, <<"O","n">>,
      <<"A","t">>, <<"T","o">>, <<"B","y">>, <<"W","i","t","h">> }

extract_name_from_text(text) ==
    LET words == CapWordsFrom(text, 1)
        name_candidates == SelectSeq(words, LAMBDA w : w \notin common_words)
    IN  IF Len(name_candidates) > 1 THEN JoinSpace(name_candidates)
        ELSE IF Len(name_candidates) = 1 /\ Len(name_candidates[1]) > 2
             THEN name_candidates[1]
        ELSE None

(***************************************************************************)
(* The fixed texts of the source.                                          *)
(***************************************************************************)
\* ask_chatbot, the 400 reply
\* 'Error: No query provided.'
NoQueryReply ==
    <<"E","r","r","o","r",":"," ","N","o"," ","q","u","e","r","y"," ","p","r","o","v","i","d",
      "e","d",".">>

\* ask_chatbot, contact supplied
\* 'Thank you for providing your information. Your question has been forwarded to info@blackbelttestprep.com, and we will get back to you as soon as possible.'
ForwardedReply ==
    <<"T","h","a","n","k"," ","y","o","u"," ","f","o","r"," ","p","r","o","v","i","d","i","n",
      "g"," ","y","o","u","r"," ","i","n","f","o","r","m","a","t","i","o","n","."," ","Y","o",
      "u","r"," ","q","u","e","s","t","i","o","n"," ","h","a","s"," ","b","e","e","n"," ","f",
      "o","r","w","a","r","d","e","d"," ","t","o"," ","i","n","f","o","@","b","l","a","c","k",
      "b","e","l","t","t","e","s","t","p","r","e","p",".","c","o","m",","," ","a","n","d"," ",
      "w","e"," ","w","i","l","l"," ","g","e","t"," ","b","a","c","k"," ","t","o"," ","y","o",
      "u"," ","a","s"," ","s","o","o","n"," ","a","s"," ","p","o","s","s","i","b","l","e",".">>

\* ask_chatbot, contact declined
\* 'Understood. I cannot forward your question without your contact information.'
DeclinedReply ==
    <<"U","n","d","e","r","s","t","o","o","d","."," ","I"," ","c","a","n","n","o","t"," ","f",
      "o","r","w","a","r","d"," ","y","o","u","r"," ","q","u","e","s","t","i","o","n"," ","w",
      "i","t","h","o","u","t"," ","y","o","u","r"," ","c","o","n","t","a","c","t"," ","i","n",
      "f","o","r","m","a","t","i","o","n",".">>

\* ask_chatbot, neither contact nor decline
\* 'I still need your name and email to forward your question. Please provide them.'
StillNeedReply ==
    <<"I"," ","s","t","i","l","l"," ","n","e","e","d"," ","y","o","u","r"," ","n","a","m","e",
      " ","a","n","d"," ","e","m","a","i","l"," ","t","o"," ","f","o","r","w","a","r","d"," ",
      "y","o","u","r"," ","q","u","e","s","t","i","o","n","."," ","P","l","e","a","s","e"," ",
      "p","r","o","v","i","d","e"," ","t","h","e","m",".">>

\* 'BBTPOFF5'
discount_code ==
    <<"B","B","T","P","O","F","F","5">>

\* the f-string around {discount_code}
\* 'Thank you for subscribing! Here is your $5 discount code: **'
SubscribedPrefix ==
    <<"T","h","a","n","k"," ","y","o","u"," ","f","o","r"," ","s","u","b","s","c","r","i","b",
      "i","n","g","!"," ","H","e","r","e"," ","i","s"," ","y","o","u","r"," ","$","5"," ","d",
      "i","s","c","o","u","n","t"," ","c","o","d","e",":"," ","*","*">>

\* '**. You can now ask me questions about the FAQs.'
SubscribedSuffix ==
    <<"*","*","."," ","Y","o","u"," ","c","a","n"," ","n","o","w"," ","a","s","k"," ","m","e",
      " ","q","u","e","s","t","i","o","n","s"," ","a","b","o","u","t"," ","t","h","e"," ","F",
      "A","Q","s",".">>

SubscribedReply == SubscribedPrefix \o discount_code \o SubscribedSuffix

\* 'It looks like that email has already been subscribed. You can now ask me questions about the FAQs.'
AlreadySubscribedReply ==
    <<"I","t"," ","l","o","o","k","s"," ","l","i","k","e"," ","t","h","a","t"," ","e","m","a",
      "i","l"," ","h","a","s"," ","a","l","r","e","a","d","y"," ","b","e","e","n"," ","s","u",
      "b","s","c","r","i","b","e","d","."," ","Y","o","u"," ","c","a","n"," ","n","o","w"," ",
      "a","s","k"," ","m","e"," ","q","u","e","s","t","i","o","n","s"," ","a","b","o","u","t",
      " ","t","h","e"," ","F","A","Q","s",".">>

\* ask_chatbot, answer unresolved
\* 'I cannot find an answer to your question in our FAQs. To forward your question to our support team, please provide your name and email address.'
AskContactReply ==
    <<"I"," ","c","a","n","n","o","t"," ","f","i","n","d"," ","a","n"," ","a","n","s","w","e",
      "r"," ","t","o"," ","y","o","u","r"," ","q","u","e","s","t","i","o","n"," ","i","n"," ",
      "o","u","r"," ","F","A","Q","s","."," ","T","o"," ","f","o","r","w","a","r","d"," ","y",
      "o","u","r"," ","q","u","e","s","t","i","o","n"," ","t","o"," ","o","u","r"," ","s","u",
      "p","p","o","r","t"," ","t","e","a","m",","," ","p","l","e","a","s","e"," ","p","r","o",
      "v","i","d","e"," ","y","o","u","r"," ","n","a","m","e"," ","a","n","d"," ","e","m","a",
      "i","l"," ","a","d","d","r","e","s","s",".">>

\* get_answer, API_KEY unset
\* 'Sorry, the chatbot is not configured correctly (API key missing).'
ApiKeyMissingAnswer ==
    <<"S","o","r","r","y",","," ","t","h","e"," ","c","h","a","t","b","o","t"," ","i","s"," ",
      "n","o","t"," ","c","o","n","f","i","g","u","r","e","d"," ","c","o","r","r","e","c","t",
      "l","y"," ","(","A","P","I"," ","k","e","y"," ","m","i","s","s","i","n","g",")",".">>

\* get_answer, response without content
\* "Sorry, I couldn't generate a response at this time."
NoContentAnswer ==
    <<"S","o","r","r","y",","," ","I"," ","c","o","u","l","d","n","'","t"," ","g","e","n","e",
      "r","a","t","e"," ","a"," ","r","e","s","p","o","n","s","e"," ","a","t"," ","t","h","i",
      "s"," ","t","i","m","e",".">>

\* get_answer, generate_content raised
\* 'Sorry, I encountered an error while trying to find an answer.'
FaultAnswer ==
    <<"S","o","r","r","y",","," ","I"," ","e","n","c","o","u","n","t","e","r","e","d"," ","a",
      "n"," ","e","r","r","o","r"," ","w","h","i","l","e"," ","t","r","y","i","n","g"," ","t",
      "o"," ","f","i","n","d"," ","a","n"," ","a","n","s","w","e","r",".">>

\* 'N/A', the default of session_context.get('original_query', 'N/A')
NotAvailable == <<"N","/","A">>

\* 'cannot find an answer', "couldn't generate a response", 'encountered an error',
\* 'visit the contact page'
unanswered_phrases ==
    {
      <<"c","a","n","n","o","t"," ","f","i","n","d"," ","a","n"," ","a","n","s","w","e","r">>,
      <<"c","o","u","l","d","n","'","t"," ","g","e","n","e","r","a","t","e"," ","a"," ","r","e",
      "s","p","o","n","s","e">>,
      <<"e","n","c","o","u","n","t","e","r","e","d"," ","a","n"," ","e","r","r","o","r">>,
      <<"v","i","s","i","t"," ","t","h","e"," ","c","o","n","t","a","c","t"," ","p","a","g","e">>
    }

\* 'no', "don't want to share"
decline_phrases ==
    {
      <<"n","o">>,
      <<"d","o","n","'","t"," ","w","a","n","t"," ","t","o"," ","s","h","a","r","e">>
    }

(***************************************************************************)
(* Inputs: the query texts a caller sends, the session ids, and the texts  *)
(* the generation backend returns (a list of parts).                       *)
(***************************************************************************)
\* 'refund policy'
QueryPlain ==
    <<"r","e","f","u","n","d"," ","p","o","l","i","c","y">>

\* 'Jane Doe, jane@example.com'
QueryNameEmail ==
    <<"J","a","n","e"," ","D","o","e",","," ","j","a","n","e","@","e","x","a","m","p","l","e",
      ".","c","o","m">>

\* 'jane@example.com'
QueryEmailOnly ==
    <<"j","a","n","e","@","e","x","a","m","p","l","e",".","c","o","m">>

\* 'no thanks'
QueryNoThanks ==
    <<"n","o"," ","t","h","a","n","k","s">>

\* 'Noel Roy, noel@site.org'
QueryNameEmailNo ==
    <<"N","o","e","l"," ","R","o","y",","," ","n","o","e","l","@","s","i","t","e",".","o","r",
      "g">>

\* "I don't want to share"
QueryDontShare ==
    <<"I"," ","d","o","n","'","t"," ","w","a","n","t"," ","t","o"," ","s","h","a","r","e">>

Queries ==
    {QueryPlain, QueryNameEmail, QueryEmailOnly, QueryNoThanks, QueryNameEmailNo,
     QueryDontShare, << >>}

\* an answer in two parts, with a URL
PartsResolved ==
    <<
      <<"R","e","f","u","n","d","s"," ","t","a","k","e"," ","5"," ","d","a","y","s",","," ","s",
      "e","e"," ">>,
      <<"h","t","t","p","s",":","/","/","e","x","a","m","p","l","e",".","c","o","m","/","h","e",
      "l","p"," ","f","o","r"," ","d","e","t","a","i","l","s",".">>
    >>

\* the refusal the prompt asks the backend for
PartsRefusal ==
    <<
      <<"I"," ","c","a","n","n","o","t"," ","f","i","n","d"," ","t","h","e"," ","a","n","s","w",
      "e","r"," ","i","n"," ","t","h","e"," ","F","A","Q","."," ","P","l","e","a","s","e"," ",
      "v","i","s","i","t"," ","t","h","e"," ","c","o","n","t","a","c","t"," ","p","a","g","e",
      ".">>
    >>

(***************************************************************************)
(* Python dicts: dict.get, d[k] = v, del d[k] (KeyError is the caller's    *)
(* case k \notin DOMAIN d).                                                *)
(***************************************************************************)
EmptyDict == [k \in {} |-> TRUE]

DictGet(d, k, default) == IF k \in DOMAIN d THEN d[k] ELSE default

DictSet(d, k, v) == [x \in (DOMAIN d) \cup {k} |-> IF x = k THEN v ELSE d[x]]

DictDel(d, k) == [x \in (DOMAIN d) \ {k} |-> d[x]]

(***************************************************************************)
(* Bounds and inputs of the model.                                         *)
(***************************************************************************)
\* the number of requests the server receives in one run
MaxTurns == 3

\* the request handlers of the server (one request each at a time)
Threads == {"t1", "t2"}

\* the session ids callers send
SessionIds == {"s1"}

\* the JSON bodies of POST /ask: query and session_id are both optional
Requests ==
    {[query |-> q, session_id |-> s] : q \in Queries, s \in SessionIds}
    \cup {[query |-> q] : q \in Queries}
    \cup {[session_id |-> s] : s \in SessionIds}
    \cup {EmptyDict}

\* the bodies sent to the threaded server: the non-empty queries that reach
\* each branch, with and without a session id
RaceQueries == {QueryPlain, QueryNameEmail, QueryEmailOnly, QueryNoThanks}

RaceRequests ==
    {[query |-> q, session_id |-> s] : q \in RaceQueries, s \in SessionIds}
    \cup {[query |-> q] : q \in RaceQueries}

\* what model.generate_content does: it raises, or returns the parts of the
\* first candidate (none when the response has no content)
BackendOutcomes ==
    {[raised |-> TRUE, parts |-> << >>],
     [raised |-> FALSE, parts |-> << >>],
     [raised |-> FALSE, parts |-> PartsResolved],
     [raised |-> FALSE, parts |-> PartsRefusal]}

(***************************************************************************)
(* The exact-match strategy (src/chatbot.py): load_faqs and get_answer,    *)
(* applied to a query and a corpus.                                        *)
(***************************************************************************)
\* chatbot.get_answer, no FAQ matched
\* "Sorry, I couldn't find an answer to your question."
NotFoundAnswer ==
    <<"S","o","r","r","y",","," ","I"," ","c","o","u","l","d","n","'","t"," ","f","i","n","d",
      " ","a","n"," ","a","n","s","w","e","r"," ","t","o"," ","y","o","u","r"," ","q","u","e",
      "s","t","i","o","n",".">>

\* the FAQ entries of the corpora: 'Refund policy' -> 'A1', 'refund window' -> 'A2',
\* 'Shipping' -> 'A3'
FaqEntries ==
    {[question |-> <<"R","e","f","u","n","d"," ","p","o","l","i","c","y">>,
      answer |-> <<"A","1">>],
     [question |-> <<"r","e","f","u","n","d"," ","w","i","n","d","o","w">>,
      answer |-> <<"A","2">>],
     [question |-> <<"S","h","i","p","p","i","n","g">>,
      answer |-> <<"A","3">>]}

\* the longest corpus
MaxFaqs == 2

\* the corpora: every sequence of at most MaxFaqs entries
Corpora == UNION {[1..n -> FaqEntries] : n \in 0..MaxFaqs}

\* the FAQ file: missing, a document without the key 'faqs', or a document
\* that holds a corpus
FaqFiles ==
    {[exists |-> FALSE, json |-> EmptyDict], [exists |-> TRUE, json |-> EmptyDict]}
    \cup {[exists |-> TRUE, json |-> [faqs |-> c]] : c \in Corpora}

\* the queries asked of the exact strategy: 'refund', 'REFUND', 'window', 'ship',
\* 'price', 'refund policy now', 'refund policy' and the empty text
ExactQueries ==
    {<<"r","e","f","u","n","d">>,
     <<"R","E","F","U","N","D">>,
     <<"w","i","n","d","o","w">>,
     <<"s","h","i","p">>,
     <<"p","r","i","c","e">>,
     <<"r","e","f","u","n","d"," ","p","o","l","i","c","y"," ","n","o","w">>,
     QueryPlain, << >>}

\* load_faqs of chatbot.py: None for a missing file, else
\* faqs_data.get('faqs', [])
load_faqs(file) ==
    IF ~file.exists THEN [is_none |-> TRUE, items |-> << >>]
    ELSE [is_none |-> FALSE, items |-> DictGet(file.json, "faqs", << >>)]

\* a variant that keeps the last FAQ whose question holds the query
LastMatchFrom(query_lower, items, i) ==
    LET hits == {j \in i..Len(items) : Contains(Lower(items[j].question), query_lower)}
    IN  IF hits = {} THEN 0 ELSE CHOOSE j \in hits : \A k \in hits : k <= j

\* the first FAQ from position i on whose question holds the query, 0 when none
RECURSIVE FirstMatchFrom(_, _, _)
FirstMatchFrom(query_lower, items, i) ==
    IF i > Len(items) THEN 0
    ELSE IF Contains(Lower(items[i].question), query_lower) THEN i
    ELSE FirstMatchFrom(query_lower, items, i + 1)

\* get_answer of chatbot.py on what load_faqs returned: iterating None raises
\* TypeError
chatbot_get_answer(query, faqs) ==
    LET query_lower == Lower(query)
        hit == FirstMatchFrom(query_lower, faqs.items, 1)
    IN  IF faqs.is_none THEN [raised |-> TRUE, value |-> << >>]
        ELSE IF hit # 0 THEN [raised |-> FALSE, value |-> faqs.items[hit].answer]
        ELSE [raised |-> FALSE, value |-> NotFoundAnswer]

(***************************************************************************)
(* State.                                                                  *)
(*   config             what the environment variables configure           *)
(*   conversation_state the process-wide session dict                      *)
(*   emails             the rows of table "emails" (column email, unique)  *)
(*   notify_calls       the calls of send_support_email, in order          *)
(*   outbox             the messages smtp.send_message delivered           *)
(*   pc, data, session_context, answer, response                           *)
(*                      each handler's position and locals                 *)
(*   turn               per handler, the stores as they were when its      *)
(*                      request arrived and what the request has done:     *)
(*                      calls of get_answer and of send_support_email,     *)
(*                      rows stored, writes to conversation_state, and     *)
(*                      the exception save_email caught ("fault" for a     *)
(*                      database fault, "integrity" for the unique         *)
(*                      constraint)                                        *)
(*   turns              the number of requests received                    *)
(*   chatbot            the exact-match strategy of chatbot.py: the FAQ    *)
(*                      file, what load_faqs returned, the query asked     *)
(*                      and what get_answer returned                       *)
(***************************************************************************)
VARIABLES config, conversation_state, emails, notify_calls, outbox,
          pc, data, session_context, answer, response, turn, turns, chatbot

vars == <<config, conversation_state, emails, notify_calls, outbox,
          pc, data, session_context, answer, response, turn, turns, chatbot>>

shared == <<conversation_state, emails, notify_calls, outbox>>

NoResponse == [status |-> 0, json |-> EmptyDict]

NoTurn ==
    [state0 |-> EmptyDict, emails0 |-> << >>, calls0 |-> 0, sent0 |-> 0,
     generated |-> 0, notified |-> 0, stored |-> 0, mutated |-> 0,
     db_error |-> "none"]

\* the exact-match strategy before the FAQ file is loaded
ChatbotStart(file) ==
    [pc |-> "start", file |-> file,
     faqs |-> [is_none |-> TRUE, items |-> << >>],
     query |-> << >>, result |-> [raised |-> FALSE, value |-> << >>]]

\* the server runs without chatbot.py
ChatbotOff == [ChatbotStart([exists |-> FALSE, json |-> EmptyDict]) EXCEPT !.pc = "off"]

Init ==
    /\ config \in [db_engine : BOOLEAN, mail : BOOLEAN, api_key : BOOLEAN]
    /\ conversation_state = EmptyDict
    /\ emails = << >>
    /\ notify_calls = << >>
    /\ outbox = << >>
    /\ pc = [t \in Threads |-> "idle"]
    /\ data = [t \in Threads |-> EmptyDict]
    /\ session_context = [t \in Threads |-> EmptyDict]
    /\ answer = [t \in Threads |-> << >>]
    /\ response = [t \in Threads |-> NoResponse]
    /\ turn = [t \in Threads |-> NoTurn]
    /\ turns = 0
    /\ chatbot = ChatbotOff

(***************************************************************************)
(* The locals of ask_chatbot that are functions of the request and of the  *)
(* session context read.                                                   *)
(***************************************************************************)
\* user_input = data.get('query')
user_input(d) == DictGet(d, "query", None)

\* a variant that files every turn under the sentinel
SessionIdAlwaysDefault(d) == "default_session"

\* session_id = data.get('session_id', 'default_session')
session_id(d) == DictGet(d, "session_id", "default_session")

\* a variant that rejects only an absent query (`user_input is None`)
NoQueryNoneOnly(d) == user_input(d) = None

\* `not user_input`
NoQuery(d) == user_input(d) = None \/ user_input(d) = << >>

\* session_context.get('waiting_for_contact'), as a truth value
waiting_for_contact(ctx) == DictGet(ctx, "waiting_for_contact", FALSE) = TRUE

\* session_context.get('original_query', 'N/A')
original_query(ctx) == DictGet(ctx, "original_query", NotAvailable)

\* a variant whose test is always true ("no" in text or "don't want to share")
DeclinesAlwaysTruthy(text) == TRUE

\* a variant that knows only the phrase "no"
DeclinesNoOnly(text) == Contains(Lower(text), <<"n","o">>)

\* "no" in user_input.lower() or "don't want to share" in user_input.lower()
Declines(text) == \E p \in decline_phrases : Contains(Lower(text), p)

\* a variant that knows only the phrase 'cannot find an answer'
UnresolvedFirstPhraseOnly(text) ==
    Contains(Lower(text), <<"c","a","n","n","o","t"," ","f","i","n","d"," ","a","n"," ",
                            "a","n","s","w","e","r">>)

\* any(phrase in answer.lower() for phrase in unanswered_phrases)
Unresolved(text) == \E p \in unanswered_phrases : Contains(Lower(text), p)

\* "".join(part.text for part in parts)
RECURSIVE JoinParts(_)
JoinParts(parts) ==
    IF Len(parts) = 0 THEN << >> ELSE Head(parts) \o JoinParts(Tail(parts))

\* get_answer of app.py, given what the backend does
get_answer(api_key, outcome) ==
    IF ~api_key THEN ApiKeyMissingAnswer
    ELSE IF outcome.raised THEN FaultAnswer
    ELSE IF Len(outcome.parts) > 0 THEN JoinParts(outcome.parts)
    ELSE NoContentAnswer

\* datetime.time(hour, minute), in minutes of the day
Time(hour, minute) == hour * 60 + minute

\* is_working_hours, on the Eastern time of day it reads from the clock; the
\* handler never calls it
is_working_hours(current_time) ==
    LET morning_start == Time(9, 0)
        morning_end == Time(12, 0)
        afternoon_start == Time(13, 0)
        afternoon_end == Time(17, 30)
        in_morning_hours == morning_start <= current_time /\ current_time <= morning_end
        in_afternoon_hours ==
            afternoon_start <= current_time /\ current_time <= afternoon_end
    IN  in_morning_hours \/ in_afternoon_hours

\* times of day on both sides of each end of the working hours
ClockSamples ==
    {Time(8, 59), Time(9, 0), Time(12, 0), Time(12, 1), Time(12, 59), Time(13, 0),
     Time(17, 30), Time(17, 31)}

\* jsonify(...) with its status
Reply(status, body) == [status |-> status, json |-> body]

(***************************************************************************)
(* ask_chatbot, one action per access to the shared stores.                *)
(***************************************************************************)
\* the request arrives; an absent or empty query is answered 400 at once.
\* serial: the server takes one request at a time, and the turn record keeps
\* the stores as the request found them (requests that overlap have no such
\* "before": their record keeps only what the request itself does)
Receive(t, d, serial) ==
    /\ pc[t] = "idle"
    /\ turns < MaxTurns
    /\ serial => \A u \in Threads : pc[u] = "idle"
    /\ turns' = turns + 1
    /\ data' = [data EXCEPT ![t] = d]
    /\ turn' = [turn EXCEPT ![t] =
                    IF serial
                    THEN [state0 |-> conversation_state, emails0 |-> emails,
                          calls0 |-> Len(notify_calls), sent0 |-> Len(outbox),
                          generated |-> 0, notified |-> 0, stored |-> 0, mutated |-> 0,
                          db_error |-> "none"]
                    ELSE NoTurn]
    /\ IF NoQuery(d)
       THEN /\ response' = [response EXCEPT ![t] = Reply(400, [answer |-> NoQueryReply])]
            /\ pc' = [pc EXCEPT ![t] = "done"]
       ELSE /\ response' = response
            /\ pc' = [pc EXCEPT ![t] = "read_state"]
    /\ UNCHANGED <<config, chatbot, shared, session_context, answer>>

\* a variant that tests the decline phrases before the contact details
BranchDeclineFirst(ctx, text) ==
    IF waiting_for_contact(ctx)
    THEN IF Declines(text) THEN "del_declined"
         ELSE IF extract_name_from_text(text) # None /\ extract_email_from_text(text) # None
         THEN "notify"
         ELSE "still_need"
    ELSE IF extract_email_from_text(text) # None THEN "save_email" ELSE "get_answer"

\* a variant that tests for an email opt-in before the awaiting branch
BranchOptInFirst(ctx, text) ==
    IF extract_email_from_text(text) # None /\ extract_name_from_text(text) = None
    THEN "save_email"
    ELSE IF waiting_for_contact(ctx)
    THEN IF extract_name_from_text(text) # None /\ extract_email_from_text(text) # None
         THEN "notify"
         ELSE IF Declines(text) THEN "del_declined"
         ELSE "still_need"
    ELSE IF extract_email_from_text(text) # None THEN "save_email" ELSE "get_answer"

\* the branch ask_chatbot takes on the session context and the message: in
\* a session that waits for contact details, name and email first, then the
\* decline phrases, else the request again; in any other session the email
\* opt-in, else the FAQ answer
Branch(ctx, text) ==
    LET user_name == extract_name_from_text(text)
        user_email == extract_email_from_text(text)
    IN  IF waiting_for_contact(ctx)
        THEN IF user_name # None /\ user_email # None THEN "notify"
             ELSE IF Declines(text) THEN "del_declined"
             ELSE "still_need"
        ELSE IF user_email # None THEN "save_email" ELSE "get_answer"

\* session_context = conversation_state.get(session_id, {}) and the branch
\* taken on it
ReadState(t) ==
    /\ pc[t] = "read_state"
    /\ LET text == user_input(data[t])
           ctx == DictGet(conversation_state, session_id(data[t]), EmptyDict)
           branch == Branch(ctx, text)
       IN  /\ session_context' = [session_context EXCEPT ![t] = ctx]
           /\ IF branch = "still_need"
              THEN /\ pc' = [pc EXCEPT ![t] = "done"]
                   /\ response' = [response EXCEPT ![t] =
                                       Reply(200, [answer |-> StillNeedReply])]
              ELSE /\ pc' = [pc EXCEPT ![t] = branch]
                   /\ response' = response
    /\ UNCHANGED <<config, chatbot, shared, data, answer, turn, turns>>

\* a variant that forwards the text of the current message as the query
SupportMessageFromInput(ctx, text) ==
    [channel |-> "email",
     user_query |-> text,
     user_email |-> extract_email_from_text(text),
     user_name |-> extract_name_from_text(text)]

\* the arguments of send_support_email(original_query, user_email, user_name),
\* the one notifier the handler calls: it sends mail
SupportMessage(ctx, text) ==
    [channel |-> "email",
     user_query |-> original_query(ctx),
     user_email |-> extract_email_from_text(text),
     user_name |-> extract_name_from_text(text)]

\* a variant without the try/except around the transport
NotifierRaisesOnFault(configured, delivered) == configured /\ ~delivered

\* send_support_email lets an exception out to ask_chatbot: never; it returns
\* early when the mail settings are missing, and the except clause around the
\* transport catches every Exception
NotifierRaises(configured, delivered) == FALSE

\* send_support_email: nothing is sent when the mail settings are missing; a
\* fault of the transport is caught.  An exception let out would end the
\* request with status 500
Notify(t) ==
    /\ pc[t] = "notify"
    /\ \E delivered \in BOOLEAN :
         LET msg == SupportMessage(session_context[t], user_input(data[t]))
         IN  /\ notify_calls' = Append(notify_calls, msg)
             /\ outbox' = IF config.mail /\ delivered THEN Append(outbox, msg) ELSE outbox
             /\ IF NotifierRaises(config.mail, delivered)
                THEN /\ pc' = [pc EXCEPT ![t] = "done"]
                     /\ response' = [response EXCEPT ![t] = Reply(500, EmptyDict)]
                ELSE /\ pc' = [pc EXCEPT ![t] = "del_notified"]
                     /\ response' = response
    /\ turn' = [turn EXCEPT ![t].notified = @ + 1]
    /\ UNCHANGED <<config, chatbot, conversation_state, emails, data, session_context,
                   answer, turns>>

\* a variant that lowers the flag and keeps the entry
ClearedFlagOnly(cs, sid) ==
    DictSet(cs, sid, [waiting_for_contact |-> FALSE,
                      original_query |-> cs[sid].original_query])

\* the store after del conversation_state[session_id]
ClearedState(cs, sid) == DictDel(cs, sid)

\* del conversation_state[session_id], then the reply `body`; the del raises
\* KeyError when the key is gone, which the handler does not catch: the
\* request ends with status 500
DeleteState(t, body) ==
    LET sid == session_id(data[t])
    IN  IF sid \in DOMAIN conversation_state
        THEN /\ conversation_state' = ClearedState(conversation_state, sid)
             /\ turn' = [turn EXCEPT ![t].mutated = @ + 1]
             /\ response' = [response EXCEPT ![t] = Reply(200, [answer |-> body])]
        ELSE /\ conversation_state' = conversation_state
             /\ turn' = turn
             /\ response' = [response EXCEPT ![t] = Reply(500, EmptyDict)]

\* a variant whose decline branch does not return
DeclineFallsThrough(branch) == IF branch = "del_declined" THEN "get_answer" ELSE "done"

\* where the handler is after the reply of a branch: every branch ends in
\* return jsonify(...), no later branch runs
Returned(branch) == "done"

DelNotified(t) ==
    /\ pc[t] = "del_notified"
    /\ DeleteState(t, ForwardedReply)
    /\ pc' = [pc EXCEPT ![t] = Returned("del_notified")]
    /\ UNCHANGED <<config, chatbot, emails, notify_calls, outbox, data, session_context,
                   answer, turns>>

DelDeclined(t) ==
    /\ pc[t] = "del_declined"
    /\ DeleteState(t, DeclinedReply)
    /\ pc' = [pc EXCEPT ![t] = Returned("del_declined")]
    /\ UNCHANGED <<config, chatbot, emails, notify_calls, outbox, data, session_context,
                   answer, turns>>

(***************************************************************************)
(* save_email: the existence query and the commit are two statements of    *)
(* the database session; either may fail, and every failure is caught.     *)
(***************************************************************************)
\* db.query(Email).filter(Email.email == email).first() finds a row
ExistingEmail(rows, email) == \E i \in DOMAIN rows : rows[i] = email

\* a variant without the unique constraint on the column
NoUniqueConstraint(rows, email) == FALSE

\* Column(String, unique=True): the insert of a second equal value is refused
UniqueViolation(rows, email) == \E i \in DOMAIN rows : rows[i] = email

\* db.commit() goes through: no fault and no IntegrityError
CommitSucceeds(fault, violation) == ~fault /\ ~violation

\* a variant with the two replies the wrong way round
SubscriptionReplyInverted(saved) ==
    IF saved THEN AlreadySubscribedReply ELSE SubscribedReply

\* a variant that ignores save_email's result
SubscriptionReplyAlwaysCode(saved) == SubscribedReply

\* the reply of the opt-in branch on save_email's result
SubscriptionReply(saved) ==
    IF saved THEN SubscribedReply ELSE AlreadySubscribedReply

\* save_email up to its existence check: it returns False without a database,
\* on a fault and on an existing row
SaveEmailQuery(t) ==
    /\ pc[t] = "save_email"
    /\ \E fault \in BOOLEAN :
         LET email == extract_email_from_text(user_input(data[t]))
         IN  IF ~config.db_engine \/ fault \/ ExistingEmail(emails, email)
             THEN /\ response' = [response EXCEPT ![t] =
                                     Reply(200, [answer |-> SubscriptionReply(FALSE)])]
                  /\ pc' = [pc EXCEPT ![t] = "done"]
                  /\ turn' = [turn EXCEPT ![t].db_error =
                                  IF config.db_engine /\ fault THEN "fault" ELSE @]
             ELSE /\ response' = response
                  /\ pc' = [pc EXCEPT ![t] = "commit"]
                  /\ turn' = turn
    /\ UNCHANGED <<config, chatbot, shared, data, session_context, answer, turns>>

\* db.add(new_email); db.commit(): True when the row is stored, False from the
\* except clause otherwise
SaveEmailCommit(t) ==
    /\ pc[t] = "commit"
    /\ \E fault \in BOOLEAN :
         LET email == extract_email_from_text(user_input(data[t]))
             saved == CommitSucceeds(fault, UniqueViolation(emails, email))
         IN  /\ emails' = IF saved THEN Append(emails, email) ELSE emails
             /\ turn' = [turn EXCEPT
                            ![t].stored = IF saved THEN @ + 1 ELSE @,
                            ![t].db_error = IF saved THEN @
                                            ELSE IF fault THEN "fault" ELSE "integrity"]
             /\ response' = [response EXCEPT ![t] =
                                Reply(200, [answer |-> SubscriptionReply(saved)])]
    /\ pc' = [pc EXCEPT ![t] = "done"]
    /\ UNCHANGED <<config, chatbot, conversation_state, notify_calls, outbox, data,
                   session_context, answer, turns>>

(***************************************************************************)
(* The default branch: get_answer, then the unresolved check.              *)
(***************************************************************************)
\* the entry written when the answer is unresolved
AwaitingEntry(query) == [waiting_for_contact |-> TRUE, original_query |-> query]

GetAnswer(t) ==
    /\ pc[t] = "get_answer"
    /\ \E outcome \in BackendOutcomes :
         LET text == get_answer(config.api_key, outcome)
             sid == session_id(data[t])
         IN  /\ answer' = [answer EXCEPT ![t] = text]
             /\ IF Unresolved(text)
                THEN /\ conversation_state' =
                            DictSet(conversation_state, sid,
                                    AwaitingEntry(user_input(data[t])))
                     /\ turn' = [turn EXCEPT ![t].generated = @ + 1,
                                             ![t].mutated = @ + 1]
                     /\ response' = [response EXCEPT ![t] =
                                        Reply(200, [answer |-> AskContactReply])]
                ELSE /\ conversation_state' = conversation_state
                     /\ turn' = [turn EXCEPT ![t].generated = @ + 1]
                     /\ response' = [response EXCEPT ![t] =
                                        Reply(200, [answer |-> text,
                                                    urls |-> extract_url_from_text(text)])]
    /\ pc' = [pc EXCEPT ![t] = "done"]
    /\ UNCHANGED <<config, chatbot, emails, notify_calls, outbox, data, session_context, turns>>

\* the response goes back to the caller and the handler is free again
Return(t) ==
    /\ pc[t] = "done"
    /\ pc' = [pc EXCEPT ![t] = "idle"]
    /\ data' = [data EXCEPT ![t] = EmptyDict]
    /\ session_context' = [session_context EXCEPT ![t] = EmptyDict]
    /\ answer' = [answer EXCEPT ![t] = << >>]
    /\ response' = [response EXCEPT ![t] = NoResponse]
    /\ turn' = [turn EXCEPT ![t] = NoTurn]
    /\ UNCHANGED <<config, chatbot, shared, turns>>

\* the steps of a request after its arrival
Step(t) ==
    \/ ReadState(t)
    \/ Notify(t)
    \/ DelNotified(t)
    \/ DelDeclined(t)
    \/ SaveEmailQuery(t)
    \/ SaveEmailCommit(t)
    \/ GetAnswer(t)
    \/ Return(t)

\* a server that handles one request at a time
Next ==
    \E t \in Threads :
        \/ \E d \in Requests : Receive(t, d, TRUE)
        \/ Step(t)

Spec == Init /\ [][Next]_vars

\* a threaded server: requests overlap
NextConc ==
    \E t \in Threads :
        \/ \E d \in RaceRequests : Receive(t, d, FALSE)
        \/ Step(t)

SpecConc == Init /\ [][NextConc]_vars

(***************************************************************************)
(* The exact-match strategy applied: load_faqs on a FAQ file, then         *)
(* get_answer on queries.                                                  *)
(***************************************************************************)
server == <<config, conversation_state, emails, notify_calls, outbox,
            pc, data, session_context, answer, response, turn, turns>>

InitExact ==
    /\ config = [db_engine |-> FALSE, mail |-> FALSE, api_key |-> FALSE]
    /\ conversation_state = EmptyDict
    /\ emails = << >>
    /\ notify_calls = << >>
    /\ outbox = << >>
    /\ pc = [t \in Threads |-> "idle"]
    /\ data = [t \in Threads |-> EmptyDict]
    /\ session_context = [t \in Threads |-> EmptyDict]
    /\ answer = [t \in Threads |-> << >>]
    /\ response = [t \in Threads |-> NoResponse]
    /\ turn = [t \in Threads |-> NoTurn]
    /\ turns = 0
    /\ \E file \in FaqFiles : chatbot = ChatbotStart(file)

\* faqs = load_faqs(FAQ_FILE_PATH)
LoadFaqs ==
    /\ chatbot.pc = "start"
    /\ chatbot' = [chatbot EXCEPT !.pc = "loaded", !.faqs = load_faqs(chatbot.file)]
    /\ UNCHANGED server

\* answer = get_answer(user_input, faqs)
AskExact(query) ==
    /\ chatbot.pc \in {"loaded", "answered"}
    /\ chatbot' = [chatbot EXCEPT !.pc = "answered", !.query = query,
                                  !.result = chatbot_get_answer(query, chatbot.faqs)]
    /\ UNCHANGED server

NextExact ==
    \/ LoadFaqs
    \/ \E query \in ExactQueries : AskExact(query)

SpecExact == InitExact /\ [][NextExact]_vars

(***************************************************************************)
(* Vocabulary of the properties.  A finished turn is a handler at "done":  *)
(* its reply is built and, on the serial server, nothing else has run      *)
(* since its request arrived.                                              *)
(***************************************************************************)
AllSessionIds == SessionIds \cup {"default_session"}

\* the session's entry says the bot waits for contact details
Awaiting(cs, sid) ==
    /\ sid \in DOMAIN cs
    /\ "waiting_for_contact" \in DOMAIN cs[sid]
    /\ cs[sid].waiting_for_contact = TRUE

\* the session's entry holds a pending query
HasPendingQuery(cs, sid) == sid \in DOMAIN cs /\ "original_query" \in DOMAIN cs[sid]

\* handler t has finished a turn whose message text is present and non-empty
FinishedTurn(t) ==
    pc[t] = "done" /\ "query" \in DOMAIN data[t] /\ data[t].query # << >>

\* handler t has finished a turn whose message text is absent or empty
FinishedEmptyTurn(t) ==
    pc[t] = "done" /\ ("query" \notin DOMAIN data[t] \/ data[t].query = << >>)

HasEmail(text) == extract_email_from_text(text) # None

HasName(text) == extract_name_from_text(text) # None

\* the answer text holds one of the four unresolved-signal phrases
HasUnresolvedPhrase(text) ==
    \/ Contains(Lower(text), <<"c","a","n","n","o","t"," ","f","i","n","d"," ","a","n"," ",
                              "a","n","s","w","e","r">>)
    \/ Contains(Lower(text), <<"c","o","u","l","d","n","'","t"," ","g","e","n","e","r","a",
                              "t","e"," ","a"," ","r","e","s","p","o","n","s","e">>)
    \/ Contains(Lower(text), <<"e","n","c","o","u","n","t","e","r","e","d"," ","a","n"," ",
                              "e","r","r","o","r">>)
    \/ Contains(Lower(text), <<"v","i","s","i","t"," ","t","h","e"," ","c","o","n","t","a",
                              "c","t"," ","p","a","g","e">>)

\* the message text holds a decline signal
HasDeclineSignal(text) ==
    \/ Contains(Lower(text), <<"n","o">>)
    \/ Contains(Lower(text), <<"d","o","n","'","t"," ","w","a","n","t"," ","t","o"," ",
                              "s","h","a","r","e">>)

\* the calls of the notifier, and the messages delivered, since t's request arrived
TurnCalls(t) == SubSeq(notify_calls, turn[t].calls0 + 1, Len(notify_calls))

TurnSent(t) == SubSeq(outbox, turn[t].sent0 + 1, Len(outbox))

\* the turn left every store as it found it
StoresUntouched(t) ==
    /\ conversation_state = turn[t].state0
    /\ emails = turn[t].emails0
    /\ TurnCalls(t) = << >>
    /\ TurnSent(t) = << >>

(***************************************************************************)
(* C1. On a session that is not awaiting contact, a turn without an email  *)
(* address whose answer holds an unresolved-signal phrase leaves the       *)
(* session awaiting contact with the turn's message as pending query.  On  *)
(* an awaiting session, a turn that supplies a name and an email clears    *)
(* the entry and calls the notifier exactly once, with the pending query   *)
(* (not the contact message), the name and the email; at most that one     *)
(* message is delivered, none without mail settings.                       *)
(***************************************************************************)
C1_PendingThenEscalated ==
    \A t \in Threads :
        FinishedTurn(t) =>
            LET sid == session_id(data[t])
                text == data[t].query
                before == turn[t].state0
            IN  /\ (~Awaiting(before, sid) /\ ~HasEmail(text)
                        /\ HasUnresolvedPhrase(answer[t]))
                    => /\ Awaiting(conversation_state, sid)
                       /\ conversation_state[sid].original_query = text
                /\ (Awaiting(before, sid) /\ HasName(text) /\ HasEmail(text))
                    => /\ sid \notin DOMAIN conversation_state
                       /\ TurnCalls(t) =
                            << [channel |-> "email",
                                user_query |-> before[sid].original_query,
                                user_email |-> extract_email_from_text(text),
                                user_name |-> extract_name_from_text(text)] >>
                       /\ TurnSent(t) \in {<< >>, TurnCalls(t)}
                       /\ ~config.mail => TurnSent(t) = << >>

\* a contact turn has finished on a session that awaited contact for the
\* plain query: the entry is gone and the one message delivered carries the
\* plain query, not the contact message
C1_Witness ==
    \E t \in Threads :
        /\ FinishedTurn(t)
        /\ data[t].query = QueryNameEmail
        /\ Awaiting(turn[t].state0, session_id(data[t]))
        /\ turn[t].state0[session_id(data[t])].original_query = QueryPlain
        /\ session_id(data[t]) \notin DOMAIN conversation_state
        /\ Len(TurnSent(t)) = 1
        /\ TurnSent(t)[1].user_query = QueryPlain

(***************************************************************************)
(* C2. For every session id, the store holds a pending query exactly when  *)
(* it holds the awaiting flag set.                                         *)
(***************************************************************************)
C2_PendingIffAwaiting ==
    \A sid \in AllSessionIds :
        HasPendingQuery(conversation_state, sid) <=> Awaiting(conversation_state, sid)

\* a turn has cleared a session that was awaiting contact, while another
\* session still awaits
C2_Witness ==
    \E t \in Threads :
        \E other \in AllSessionIds :
            /\ FinishedTurn(t)
            /\ Awaiting(turn[t].state0, session_id(data[t]))
            /\ ~HasPendingQuery(conversation_state, session_id(data[t]))
            /\ Awaiting(conversation_state, other)

(***************************************************************************)
(* C3, as claimed.  On the default branch an unresolved answer makes the   *)
(* handler send one notification in that same turn, by webhook inside the  *)
(* working hours and by email outside them, reply that the question was    *)
(* forwarded, and leave the session not awaiting contact.                  *)
(***************************************************************************)
C3_Original ==
    \A t \in Threads :
        \A now \in ClockSamples :
            (/\ FinishedTurn(t)
             /\ ~Awaiting(turn[t].state0, session_id(data[t]))
             /\ ~HasEmail(data[t].query)
             /\ HasUnresolvedPhrase(answer[t]))
            => /\ Len(TurnCalls(t)) = 1
               /\ TurnCalls(t)[1].channel =
                    (IF is_working_hours(now) THEN "webhook" ELSE "email")
               /\ response[t].json.answer # AskContactReply
               /\ ~Awaiting(conversation_state, session_id(data[t]))

(***************************************************************************)
(* C3, amended.  On the default branch an unresolved answer makes the      *)
(* handler send no notification in that turn, by no channel and whatever   *)
(* the time of day; it replies with the fixed request for name and email   *)
(* and puts the session into the awaiting-contact state.                   *)
(***************************************************************************)
C3_UnresolvedAsksForContact ==
    \A t \in Threads :
        (/\ FinishedTurn(t)
         /\ ~Awaiting(turn[t].state0, session_id(data[t]))
         /\ ~HasEmail(data[t].query)
         /\ HasUnresolvedPhrase(answer[t]))
        => /\ turn[t].notified = 0
           /\ TurnCalls(t) = << >>
           /\ TurnSent(t) = << >>
           /\ emails = turn[t].emails0
           /\ response[t] = [status |-> 200, json |-> [answer |-> AskContactReply]]
           /\ Awaiting(conversation_state, session_id(data[t]))

\* a turn whose generation faulted has finished: the user is asked for contact
\* details, the session awaits them, and nothing was sent
C3_Witness ==
    \E t \in Threads :
        /\ FinishedTurn(t)
        /\ ~Awaiting(turn[t].state0, session_id(data[t]))
        /\ answer[t] = FaultAnswer
        /\ response[t].json.answer = AskContactReply
        /\ Awaiting(conversation_state, session_id(data[t]))
        /\ TurnCalls(t) = << >>

(***************************************************************************)
(* C4. A turn whose message text is absent or empty is answered 400 with   *)
(* exactly "Error: No query provided.", whatever the session's state; it   *)
(* changes neither the session store nor the email store, generates no     *)
(* answer and sends no notification.                                       *)
(***************************************************************************)
C4_EmptyQueryRejected ==
    \A t \in Threads :
        FinishedEmptyTurn(t) =>
            /\ response[t] = [status |-> 400, json |-> [answer |-> NoQueryReply]]
            /\ StoresUntouched(t)
            /\ turn[t].generated = 0
            /\ turn[t].notified = 0
            /\ turn[t].stored = 0
            /\ turn[t].mutated = 0

\* an empty query has been rejected on a session that awaits contact
C4_Witness ==
    \E t \in Threads :
        /\ FinishedEmptyTurn(t)
        /\ "query" \in DOMAIN data[t]
        /\ Awaiting(turn[t].state0, session_id(data[t]))
        /\ Awaiting(conversation_state, session_id(data[t]))
        /\ response[t].status = 400

(***************************************************************************)
(* C5. On an awaiting session, a turn whose message holds a decline signal *)
(* and does not supply both a name and an email clears the session entry,  *)
(* replies that the question cannot be forwarded without contact           *)
(* information, and sends no notification.                                 *)
(***************************************************************************)
C5_DeclineClears ==
    \A t \in Threads :
        (/\ FinishedTurn(t)
         /\ Awaiting(turn[t].state0, session_id(data[t]))
         /\ HasDeclineSignal(data[t].query)
         /\ ~(HasName(data[t].query) /\ HasEmail(data[t].query)))
        => /\ session_id(data[t]) \notin DOMAIN conversation_state
           /\ response[t] = [status |-> 200, json |-> [answer |-> DeclinedReply]]
           /\ turn[t].notified = 0
           /\ TurnCalls(t) = << >>
           /\ TurnSent(t) = << >>

\* "no thanks" has been answered on a session that awaited contact
C5_Witness ==
    \E t \in Threads :
        /\ FinishedTurn(t)
        /\ data[t].query = QueryNoThanks
        /\ Awaiting(turn[t].state0, session_id(data[t]))
        /\ session_id(data[t]) \notin DOMAIN conversation_state
        /\ response[t].json.answer = DeclinedReply

(***************************************************************************)
(* C6. On a session that is not awaiting contact, a turn whose message     *)
(* holds an email address is answered with the discount code BBTPOFF5      *)
(* exactly when the turn newly stored that address; when the address was   *)
(* already stored, persistence is not configured, or persistence raised,   *)
(* the reply is the already-subscribed message with status 200.  In every  *)
(* case no answer is generated, no notification is sent and the session    *)
(* store is unchanged.                                                     *)
(***************************************************************************)
InRows(rows, email) == \E i \in DOMAIN rows : rows[i] = email

HasDiscountCode(text) == Contains(text, <<"B","B","T","P","O","F","F","5">>)

\* handler t has finished a turn of the opt-in branch
FinishedOptIn(t) ==
    /\ FinishedTurn(t)
    /\ ~Awaiting(turn[t].state0, session_id(data[t]))
    /\ HasEmail(data[t].query)

\* the turn of handler t added its address, which was not stored before
NewlyStored(t) ==
    /\ ~InRows(turn[t].emails0, extract_email_from_text(data[t].query))
    /\ emails = Append(turn[t].emails0, extract_email_from_text(data[t].query))

NoDuplicateRows(rows) ==
    \A i, j \in DOMAIN rows : rows[i] = rows[j] => i = j

C7_EmailStoredOnce ==
    /\ NoDuplicateRows(emails)
    /\ \A t \in Threads :
        FinishedOptIn(t) =>
            LET email == extract_email_from_text(data[t].query)
            IN  /\ InRows(turn[t].emails0, email)
                    => /\ response[t].json.answer = AlreadySubscribedReply
                       /\ emails = turn[t].emails0
                /\ HasDiscountCode(response[t].json.answer)
                    => /\ ~InRows(turn[t].emails0, email)
                       /\ InRows(emails, email)

\* an address stored by an earlier turn has been submitted again, in another
\* message, and no record was added
C7_Witness ==
    \E t \in Threads :
        /\ FinishedOptIn(t)
        /\ data[t].query = QueryEmailOnly
        /\ InRows(turn[t].emails0, extract_email_from_text(data[t].query))
        /\ emails = turn[t].emails0
        /\ response[t].json.answer = AlreadySubscribedReply

(***************************************************************************)
(* C8. When two overlapping turns of the opt-in branch report the same     *)
(* address, under every interleaving of their existence checks and         *)
(* inserts the store holds no address twice, at most one of the two is     *)
(* answered with the discount code, both are answered with status 200 by   *)
(* one of the two opt-in replies, the turn that lost the insert reads the  *)
(* already-subscribed message, and, unless persistence is unconfigured or  *)
(* raised a fault of its own, the store holds the address exactly once.    *)
(***************************************************************************)
\* handler t has finished a turn of the opt-in branch (on the threaded
\* server: the context it read was not awaiting contact)
RacedOptIn(t) ==
    /\ FinishedTurn(t)
    /\ "waiting_for_contact" \notin DOMAIN session_context[t]
    /\ HasEmail(data[t].query)

RowCount(rows, email) == Cardinality({i \in DOMAIN rows : rows[i] = email})

C8_ConcurrentInsertOnce ==
    /\ NoDuplicateRows(emails)
    /\ \A t \in Threads :
        RacedOptIn(t) =>
            /\ response[t].status = 200
            /\ response[t].json.answer \in {SubscribedReply, AlreadySubscribedReply}
    /\ \A t, u \in Threads :
        (/\ t # u
         /\ RacedOptIn(t)
         /\ RacedOptIn(u)
         /\ extract_email_from_text(data[t].query) = extract_email_from_text(data[u].query))
        => LET email == extract_email_from_text(data[t].query)
           IN  /\ ~(/\ HasDiscountCode(response[t].json.answer)
                    /\ HasDiscountCode(response[u].json.answer))
               /\ turn[t].stored = 1
                    => response[u].json.answer = AlreadySubscribedReply
               /\ (/\ config.db_engine
                   /\ turn[t].db_error # "fault"
                   /\ turn[u].db_error # "fault")
                    => RowCount(emails, email) = 1

\* both turns passed the existence check before either inserted: one stored
\* the address, the other was refused by the unique constraint and reads the
\* already-subscribed message
C8_Witness ==
    \E t, u \in Threads :
        /\ t # u
        /\ RacedOptIn(t)
        /\ RacedOptIn(u)
        /\ extract_email_from_text(data[t].query) = extract_email_from_text(data[u].query)
        /\ turn[t].stored = 1
        /\ HasDiscountCode(response[t].json.answer)
        /\ turn[u].db_error = "integrity"
        /\ response[u] = [status |-> 200, json |-> [answer |-> AlreadySubscribedReply]]

(***************************************************************************)
(* C9, as claimed.  Overlapping turns of one session act on the session    *)
(* store as if one ran after the other.  With two handlers, each holding   *)
(* its reply until it is returned, a serial order allows neither of:       *)
(*   - both have sent a notification for the pending entry of the same     *)
(*     session (a second notification for one pending query);              *)
(*   - both have been answered with the request for contact details on     *)
(*     the same session (the later write replaced the earlier pending      *)
(*     query: a lost update).                                              *)
(***************************************************************************)
C9_SerialEquivalent ==
    \A t, u \in Threads :
        (/\ t # u
         /\ pc[t] \in {"del_notified", "done"}
         /\ pc[u] \in {"del_notified", "done"}
         /\ session_id(data[t]) = session_id(data[u]))
        => /\ ~(turn[t].notified = 1 /\ turn[u].notified = 1)
           /\ ~(/\ pc[t] = "done"
                /\ pc[u] = "done"
                /\ response[t].json = [answer |-> AskContactReply]
                /\ response[u].json = [answer |-> AskContactReply])

(***************************************************************************)
(* C10, as claimed.  Every turn with a non-empty message ends with a       *)
(* reply: under any interleaving of turns, no finished turn has been       *)
(* aborted by an unhandled fault (status 500).                             *)
(***************************************************************************)
C10_AlwaysReplies ==
    \A t \in Threads :
        FinishedTurn(t) =>
            /\ response[t].status = 200
            /\ "answer" \in DOMAIN response[t].json

(***************************************************************************)
(* Vocabulary of the claims about the exact-match strategy.                *)
(***************************************************************************)
\* get_answer of chatbot.py has returned on a corpus that is a list
ExactAnswered == chatbot.pc = "answered" /\ ~chatbot.faqs.is_none

\* the positions of the FAQs whose question holds the query, letter case ignored
MatchingFaqs(query, items) ==
    {i \in 1..Len(items) : Contains(Lower(items[i].question), Lower(query))}

(***************************************************************************)
(* C11. Every fallback answer of a strategy -- the exact strategy's        *)
(* not-found message, the generative strategy's no-content message and its *)
(* fault message -- is classified unresolved by the phrase check of        *)
(* ask_chatbot.  The code violates it: the not-found message of            *)
(* chatbot.get_answer holds none of the four phrases.                      *)
(***************************************************************************)
C11_FallbacksUnresolved ==
    /\ Unresolved(NoContentAnswer)
    /\ Unresolved(FaultAnswer)
    /\ (ExactAnswered /\ MatchingFaqs(chatbot.query, chatbot.faqs.items) = {})
         => Unresolved(chatbot.result.value)

(***************************************************************************)
(* C13. The exact-match strategy returns the answer of the earliest FAQ,   *)
(* in corpus order, whose question holds the query with letter case        *)
(* ignored; when no question holds the query, and for every query on an    *)
(* empty corpus, it returns the fixed not-found message.                   *)
(***************************************************************************)
C13_EarliestMatchOrNotFound ==
    ExactAnswered =>
        LET items == chatbot.faqs.items
            hits == MatchingFaqs(chatbot.query, items)
        IN  /\ ~chatbot.result.raised
            /\ hits # {} =>
                 chatbot.result.value =
                     items[CHOOSE i \in hits : \A j \in hits : i <= j].answer
            /\ hits = {} => chatbot.result.value = NotFoundAnswer
            /\ items = << >> => chatbot.result.value = NotFoundAnswer

\* 'REFUND' asked of a corpus whose two questions both hold it, with
\* different answers
C13_Witness ==
    /\ ExactAnswered
    /\ chatbot.query = <<"R","E","F","U","N","D">>
    /\ Len(chatbot.faqs.items) >= 2
    /\ {1, 2} \subseteq MatchingFaqs(chatbot.query, chatbot.faqs.items)
    /\ chatbot.faqs.items[1].answer # chatbot.faqs.items[2].answer
    /\ chatbot.result.value = chatbot.faqs.items[1].answer

(***************************************************************************)
(* C12. Within one turn there is at most one persistence write, at most    *)
(* one outbound notification and at most one mutation of the session       *)
(* state, whatever the session state and the message.                      *)
(***************************************************************************)
C12_AtMostOneEffectEach ==
    \A t \in Threads :
        pc[t] # "idle" =>
            /\ turn[t].stored <= 1
            /\ Len(emails) - Len(turn[t].emails0) <= 1
            /\ turn[t].notified <= 1
            /\ Len(TurnCalls(t)) <= 1
            /\ Len(TurnSent(t)) <= 1
            /\ turn[t].mutated <= 1

\* a finished turn has notified once and changed the session state once
C12_Witness ==
    \E t \in Threads :
        /\ FinishedTurn(t)
        /\ turn[t].notified = 1
        /\ Len(TurnCalls(t)) = 1
        /\ turn[t].mutated = 1
        /\ conversation_state # turn[t].state0

(***************************************************************************)
(* C14. While a session awaits contact details, no turn on it writes to    *)
(* the email store or calls the answer generator, whatever the message     *)
(* holds: an email address without a name is not stored and earns no       *)
(* discount code.                                                          *)
(***************************************************************************)
C14_AwaitingNoStoreNoAnswer ==
    \A t \in Threads :
        (FinishedTurn(t) /\ Awaiting(turn[t].state0, session_id(data[t])))
        => /\ turn[t].stored = 0
           /\ emails = turn[t].emails0
           /\ turn[t].generated = 0
           /\ answer[t] = << >>
           /\ "answer" \in DOMAIN response[t].json
           /\ ~HasDiscountCode(response[t].json.answer)

\* an email address without a name has been answered on a session that
\* awaited contact, with persistence configured
C14_Witness ==
    \E t \in Threads :
        /\ FinishedTurn(t)
        /\ Awaiting(turn[t].state0, session_id(data[t]))
        /\ data[t].query = QueryEmailOnly
        /\ config.db_engine
        /\ emails = turn[t].emails0
        /\ response[t].json = [answer |-> StillNeedReply]

(***************************************************************************)
(* C15. On a session that awaits contact details, a turn whose message     *)
(* holds neither name and email nor a decline signal leaves the session    *)
(* state as it was, sends nothing, stores nothing and is answered with the *)
(* request again.  A session leaves the awaiting state only by a turn on   *)
(* that session whose message holds name and email, or a decline signal.   *)
(***************************************************************************)
SuppliesContactOrDeclines(text) ==
    (HasName(text) /\ HasEmail(text)) \/ HasDeclineSignal(text)

C15_AwaitingHeld ==
    \A t \in Threads :
        /\ (/\ FinishedTurn(t)
            /\ Awaiting(turn[t].state0, session_id(data[t]))
            /\ ~SuppliesContactOrDeclines(data[t].query))
           => /\ conversation_state = turn[t].state0
              /\ response[t] = [status |-> 200, json |-> [answer |-> StillNeedReply]]
              /\ turn[t].notified = 0
              /\ TurnCalls(t) = << >>
              /\ TurnSent(t) = << >>
              /\ turn[t].stored = 0
              /\ emails = turn[t].emails0
        /\ \A sid \in AllSessionIds :
              (/\ pc[t] # "idle"
               /\ Awaiting(turn[t].state0, sid)
               /\ ~Awaiting(conversation_state, sid))
              => /\ "query" \in DOMAIN data[t]
                 /\ DictGet(data[t], "session_id", "default_session") = sid
                 /\ SuppliesContactOrDeclines(data[t].query)

\* a plain question has been answered on a session that awaited contact
C15_Witness ==
    \E t \in Threads :
        /\ FinishedTurn(t)
        /\ Awaiting(turn[t].state0, session_id(data[t]))
        /\ data[t].query = QueryPlain
        /\ Awaiting(conversation_state, session_id(data[t]))
        /\ response[t].json = [answer |-> StillNeedReply]

(***************************************************************************)
(* C16. On a session that awaits contact details, name and email take      *)
(* priority over the decline signal: a message that holds a name, an       *)
(* email and the text "no" is escalated, never treated as a decline.       *)
(***************************************************************************)
C16_ContactBeforeDecline ==
    \A t \in Threads :
        (/\ FinishedTurn(t)
         /\ Awaiting(turn[t].state0, session_id(data[t]))
         /\ HasName(data[t].query)
         /\ HasEmail(data[t].query)
         /\ HasDeclineSignal(data[t].query))
        => /\ response[t].json # [answer |-> DeclinedReply]
           /\ response[t] = [status |-> 200, json |-> [answer |-> ForwardedReply]]
           /\ Len(TurnCalls(t)) = 1
           /\ TurnCalls(t)[1].user_query = turn[t].state0[session_id(data[t])].original_query

\* 'Noel Roy, noel@site.org' holds a name, an email and "no"; it was forwarded
C16_Witness ==
    \E t \in Threads :
        /\ FinishedTurn(t)
        /\ Awaiting(turn[t].state0, session_id(data[t]))
        /\ data[t].query = QueryNameEmailNo
        /\ HasDeclineSignal(data[t].query)
        /\ Len(TurnCalls(t)) = 1
        /\ response[t].json = [answer |-> ForwardedReply]

(***************************************************************************)
(* C17. In the turn that supplies name and email on an awaiting session,   *)
(* whether the email notifier delivers, fails in the transport or is not   *)
(* configured, the session state is cleared and the same forwarded reply   *)
(* is returned; the notification is attempted at most once.                *)
(***************************************************************************)
C17_NotifierFaultContained ==
    \A t \in Threads :
        (/\ FinishedTurn(t)
         /\ Awaiting(turn[t].state0, session_id(data[t]))
         /\ HasName(data[t].query)
         /\ HasEmail(data[t].query))
        => /\ response[t] = [status |-> 200, json |-> [answer |-> ForwardedReply]]
           /\ session_id(data[t]) \notin DOMAIN conversation_state
           /\ turn[t].notified <= 1
           /\ Len(TurnCalls(t)) <= 1
           /\ Len(TurnSent(t)) <= 1
           /\ ~config.mail => TurnSent(t) = << >>

\* the mail settings are present and the transport failed: nothing was
\* delivered, the state is cleared and the reply is the forwarded one
C17_Witness ==
    \E t \in Threads :
        /\ FinishedTurn(t)
        /\ Awaiting(turn[t].state0, session_id(data[t]))
        /\ HasName(data[t].query)
        /\ HasEmail(data[t].query)
        /\ config.mail
        /\ Len(TurnCalls(t)) = 1
        /\ TurnSent(t) = << >>
        /\ session_id(data[t]) \notin DOMAIN conversation_state
        /\ response[t].json = [answer |-> ForwardedReply]

(***************************************************************************)
(* C18. On the default path, when the answer holds no unresolved-signal    *)
(* phrase, the reply carries the answer text unchanged together with the   *)
(* URLs extracted from it, and the turn leaves the session store and the   *)
(* email store unchanged and sends no notification.                        *)
(***************************************************************************)
\* handler t has finished a turn of the default path with a resolved answer
FinishedResolved(t) ==
    /\ FinishedTurn(t)
    /\ ~Awaiting(turn[t].state0, session_id(data[t]))
    /\ ~HasEmail(data[t].query)
    /\ ~HasUnresolvedPhrase(answer[t])

\* u is a piece of text without white space that starts with a scheme
LooksLikeUrl(u) ==
    /\ \/ Slice(u, 1, 8) = <<"h","t","t","p","s",":","/","/">>
       \/ Slice(u, 1, 7) = <<"h","t","t","p",":","/","/">>
    /\ \A i \in DOMAIN u : u[i] \notin SpaceChars

C18_ResolvedAnswerReturned ==
    \A t \in Threads :
        FinishedResolved(t) =>
            /\ turn[t].generated = 1
            /\ response[t].status = 200
            /\ DOMAIN response[t].json = {"answer", "urls"}
            /\ response[t].json.answer = answer[t]
            /\ \A i \in DOMAIN response[t].json.urls :
                  /\ LooksLikeUrl(response[t].json.urls[i])
                  /\ Contains(answer[t], response[t].json.urls[i])
            /\ Contains(answer[t], <<"h","t","t","p","s",":","/","/","e","x","a","m","p","l","e",
                                     ".","c","o","m","/","h","e","l","p"," ">>)
                 => response[t].json.urls =
                        << <<"h","t","t","p","s",":","/","/","e","x","a","m","p","l","e",
                             ".","c","o","m","/","h","e","l","p">> >>
            /\ ~Contains(answer[t], <<"h","t","t","p">>) => response[t].json.urls = << >>
            /\ conversation_state = turn[t].state0
            /\ emails = turn[t].emails0
            /\ turn[t].notified = 0
            /\ TurnCalls(t) = << >>
            /\ TurnSent(t) = << >>

\* the answer '... see https://example.com/help for details.' has been
\* returned with its one URL
C18_Witness ==
    \E t \in Threads :
        /\ FinishedResolved(t)
        /\ Contains(answer[t], <<"s","e","e"," ","h","t","t","p","s",":","/","/">>)
        /\ Len(response[t].json.urls) = 1
        /\ response[t].json.answer = answer[t]

(***************************************************************************)
(* C19. Session isolation: a turn that carries session id s reads and      *)
(* changes only the entry of s in the session store and leaves the entry   *)
(* of every other session id as it was; every turn that omits the session  *)
(* id is handled as the one session 'default_session', so those turns      *)
(* share one awaiting state and one pending query.                         *)
(***************************************************************************)
\* the session a request body names
SessionOf(d) == IF "session_id" \in DOMAIN d THEN d["session_id"] ELSE "default_session"

\* the entry of sid is the same in both stores
SameEntry(cs1, cs2, sid) ==
    /\ sid \in DOMAIN cs1 <=> sid \in DOMAIN cs2
    /\ sid \in DOMAIN cs1 => cs1[sid] = cs2[sid]

C19_SessionIsolation ==
    \A t \in Threads :
        pc[t] # "idle" =>
            /\ \A sid \in AllSessionIds \ {SessionOf(data[t])} :
                  SameEntry(conversation_state, turn[t].state0, sid)
            /\ (FinishedTurn(t) \/ pc[t] \notin {"read_state", "done"})
                 => session_context[t] = DictGet(turn[t].state0, SessionOf(data[t]), EmptyDict)
            /\ (/\ FinishedTurn(t)
                /\ "session_id" \notin DOMAIN data[t]
                /\ Awaiting(turn[t].state0, "default_session"))
                 => /\ response[t].json.answer \in
                          {ForwardedReply, DeclinedReply, StillNeedReply}
                    /\ TurnCalls(t) # << >> =>
                          TurnCalls(t)[1].user_query =
                              turn[t].state0["default_session"].original_query
            /\ (/\ FinishedTurn(t)
                /\ "session_id" \notin DOMAIN data[t]
                /\ response[t].json = [answer |-> AskContactReply])
                 => /\ Awaiting(conversation_state, "default_session")
                    /\ conversation_state["default_session"].original_query = data[t].query

\* a turn without session id has forwarded the pending query of
\* 'default_session' while another session still awaits contact, untouched
C19_Witness ==
    \E t \in Threads :
        /\ FinishedTurn(t)
        /\ "session_id" \notin DOMAIN data[t]
        /\ Awaiting(turn[t].state0, "default_session")
        /\ Len(TurnCalls(t)) = 1
        /\ TurnCalls(t)[1].user_query = turn[t].state0["default_session"].original_query
        /\ "default_session" \notin DOMAIN conversation_state
        /\ \E sid \in SessionIds :
              /\ Awaiting(conversation_state, sid)
              /\ SameEntry(conversation_state, turn[t].state0, sid)

====
